---- MODULE Spec2Model ----
(***************************************************************************)
(* Clinical-quality-measure protocols of the repository:                   *)
(*   protocols/FollowupOverdue.py               (FollowupOverdue)          *)
(*   protocols/SpecialTasks.py                  (SpecialTasks)             *)
(*   protocols/PostmenopausalHormoneTherapy.py  (HormoneTherapyProtocol)   *)
(*                                                                         *)
(* The host owns the patient record and changes it; each change            *)
(* invalidates the protocol result, and the host then calls                *)
(* compute_results() on the snapshot.  Instants are whole seconds relative *)
(* to the module-level NOW.  An Optional value is a set with at most one   *)
(* element (None is the empty set).                                        *)
(***************************************************************************)
EXTENDS Integers, Sequences, FiniteSets, TLC

VARIABLES
    upcoming_appointments,  \* patient.upcoming_appointments: {[startTime, status]}
    appointments,           \* patient.appointments: {[stateHistory]}
    interviews,             \* patient.interviews, in the host's (chronological) record order
    messages,               \* patient.messages: {[sender, created]}
    fo_result,              \* Optional ProtocolResult of FollowupOverdue.compute_results
    tasks,                  \* patient.tasks: {[status, labels, due]}
    st_result,              \* Optional ProtocolResult of SpecialTasks.compute_results
    conditions,             \* patient.conditions: {[system, code]}
    medications,            \* patient.medications: {[system, code]}
    ht_result               \* Optional ProtocolResult of HormoneTherapyProtocol.compute_results

fo_vars == <<upcoming_appointments, appointments, interviews, messages, fo_result>>
st_vars == <<tasks, st_result>>
ht_vars == <<conditions, medications, ht_result>>
vars == <<fo_vars, st_vars, ht_vars>>

-----------------------------------------------------------------------------
(* Bounds of the model *)

\* The FollowupOverdue patient record holds at most this many entries
\* (upcoming appointments, appointment state changes, interviews, messages).
MaxRecords == 3
\* The SpecialTasks patient has at most this many tasks.
MaxTasks == 2

-----------------------------------------------------------------------------
(* Optional values and the host's result type *)

None == {}
Some(x) == {x}
The(opt) == CHOOSE x \in opt : TRUE

STATUS_DUE == "due"
STATUS_SATISFIED == "satisfied"
STATUS_NOT_APPLICABLE == "not_applicable"

\* ProtocolResult(): the freshly constructed result every compute_results starts from.
ProtocolResult ==
    [status |-> STATUS_NOT_APPLICABLE, due_in |-> None,
     narratives |-> <<>>, recommendations |-> <<>>]

add_narrative(result, narrative) ==
    [result EXCEPT !.narratives = Append(@, narrative)]

add_recommendation(result, recommendation) ==
    [result EXCEPT !.recommendations = Append(@, recommendation)]

-----------------------------------------------------------------------------
(* FollowupOverdue: module-level constants *)

DAY == 24 * 60 * 60
WEEK == 7 * DAY
YEAR == 365 * DAY

PHONE_CALL_DISPOSITION_QUESTIONNAIRE_ID == "QUES_PHONE_01"
RISK_STRATIFICATION_QUESTIONNAIRE_ID == "DUO_QUES_RISK_STRAT_01"
RISK_STRATIFICATION_QUESTION_ID == "DUO_QUES_RISK_STRAT_02"

NOW == 0

SIX_MONTHS_WINDOW == 198 * DAY
TWO_MONTH_WINDOW == 66 * DAY
NEXT_MONTH_WINDOW == 33 * DAY

\* NOW.shift(years=-10)
LONG_TIME_AGO == NOW - 10 * YEAR

DEFAULT_RISK == "Low"

RISK_WINDOWS ==
    [level \in {"Low", "Medium", "High Risk", "High Risk - Unstable"} |->
        CASE level = "Low" -> SIX_MONTHS_WINDOW
          [] level = "Medium" -> SIX_MONTHS_WINDOW
          [] level = "High Risk" -> TWO_MONTH_WINDOW
          [] level = "High Risk - Unstable" -> NEXT_MONTH_WINDOW]

\* The PhoneResponses enumeration: PhoneResponses[code] is the member whose value
\* is code.  A code that is no member's value has no image (the source raises
\* ValueError there); the host hands the protocol answer codes of the enumeration.
PhoneResponses ==
    [code \in {"QUES_PHONE_03", "QUES_PHONE_04", "QUES_PHONE_05", "QUES_PHONE_06",
               "QUES_PHONE_08", "QUES_PHONE_10", "QUES_PHONE_11", "QUES_PHONE_16"} |->
        CASE code = "QUES_PHONE_03" -> "REACHED"
          [] code = "QUES_PHONE_04" -> "REACHED_NOT_INTERESTED"
          [] code = "QUES_PHONE_05" -> "NO_ANSWER_MESSAGE"
          [] code = "QUES_PHONE_06" -> "NO_ANSWER_NO_MESSAGE"
          [] code = "QUES_PHONE_08" -> "CALL_BACK_REQUESTED"
          [] code = "QUES_PHONE_10" -> "CALL_TO_PATIENT"
          [] code = "QUES_PHONE_11" -> "CALL_TO_OTHER"
          [] code = "QUES_PHONE_16" -> "FREE_TEXT"]

PhoneCallDispositionQuestionnaire == {PHONE_CALL_DISPOSITION_QUESTIONNAIRE_ID}
RiskStratificationQuestionnaire == {RISK_STRATIFICATION_QUESTIONNAIRE_ID}

-----------------------------------------------------------------------------
(* Host record-set operations used by the protocols *)

\* recordset.find(ValueSet) on interviews: the records of a questionnaire of the set.
find(records, value_set) ==
    SelectSeq(records, LAMBDA r : r.questionnaire \in value_set)

\* recordset.filter(status=...)
filter_status(records, status) ==
    SelectSeq(records, LAMBDA r : r.status = status)

\* recordset.last(): the last record, None for an empty record set.
last(records) ==
    IF Len(records) > 0 THEN Some(records[Len(records)]) ELSE None

\* InterviewRecordSet.after(start): the records dated at or after start.
after(records, start) ==
    SelectSeq(records, LAMBDA r : r.noteTimestamp >= start)

-----------------------------------------------------------------------------
(* FollowupOverdue *)

Max(S) == CHOOSE x \in S : \A y \in S : y <= x

get_risk_stratification(latest_date) ==
    LET latest_risk_questionnaire ==
            last(find(interviews, RiskStratificationQuestionnaire))
    IN  IF /\ latest_risk_questionnaire # None
           /\ The(latest_risk_questionnaire).noteTimestamp > latest_date
        THEN LET matching ==
                     SelectSeq(The(latest_risk_questionnaire).responses,
                               LAMBDA response :
                                   response.code = RISK_STRATIFICATION_QUESTION_ID)
             IN  IF Len(matching) > 0 THEN matching[1].value ELSE DEFAULT_RISK
        ELSE DEFAULT_RISK

\* Mutation of get_risk_stratification_period: an unmapped level falls back to the
\* two-month window.
get_risk_stratification_period_short_default ==
    LET level == get_risk_stratification(LONG_TIME_AGO)
    IN  IF level \in DOMAIN RISK_WINDOWS THEN RISK_WINDOWS[level] ELSE TWO_MONTH_WINDOW

get_risk_stratification_period ==
    LET level == get_risk_stratification(LONG_TIME_AGO)
    IN  IF level \in DOMAIN RISK_WINDOWS THEN RISK_WINDOWS[level] ELSE SIX_MONTHS_WINDOW

is_after_risk_period(date) == date > NOW + get_risk_stratification_period

\* Mutation of is_before_risk_period: the end of the risk period counts as before it.
is_before_risk_period_inclusive(date) == date <= NOW + get_risk_stratification_period

is_before_risk_period(date) == date < NOW + get_risk_stratification_period

\* Mutation of get_phone_calls_to_patient: the status filter is missing.
get_phone_calls_to_patient_any_status ==
    SelectSeq(find(interviews, PhoneCallDispositionQuestionnaire),
              LAMBDA phone_call :
                  \E i \in 1..Len(phone_call.responses) :
                      PhoneResponses[phone_call.responses[i].code] = "CALL_TO_PATIENT")

get_phone_calls_to_patient ==
    LET phone_calls ==
            filter_status(find(interviews, PhoneCallDispositionQuestionnaire), "AC")
    IN  SelectSeq(phone_calls,
                  LAMBDA phone_call :
                      \E i \in 1..Len(phone_call.responses) :
                          PhoneResponses[phone_call.responses[i].code] = "CALL_TO_PATIENT")

get_messages_to_patient_after(start_time) ==
    {message \in messages :
        /\ \E i \in 1..Len(message.sender) : message.sender[i].type = "Staff"
        /\ message.created > start_time}

get_past_appointments ==
    {appointment \in appointments :
        \E i \in 1..Len(appointment.stateHistory) :
            appointment.stateHistory[i].state = "CVD"}

\* Mutation of get_most_recent_appointment: without a check-in the result is
\* LONG_TIME_AGO, the default of the message filter, instead of None.
get_most_recent_appointment_long_ago ==
    LET created ==
            UNION {{appointment.stateHistory[i].created :
                        i \in {j \in 1..Len(appointment.stateHistory) :
                                  appointment.stateHistory[j].state = "CVD"}} :
                    appointment \in get_past_appointments}
    IN  IF created = {} THEN Some(LONG_TIME_AGO) ELSE Some(Max(created))

\* max(..., default=None) over the check-in ("CVD") entries of the past appointments
get_most_recent_appointment ==
    LET created ==
            UNION {{appointment.stateHistory[i].created :
                        i \in {j \in 1..Len(appointment.stateHistory) :
                                  appointment.stateHistory[j].state = "CVD"}} :
                    appointment \in get_past_appointments}
    IN  IF created = {} THEN None ELSE Some(Max(created))

get_upcoming_appointments ==
    {appointment \in upcoming_appointments : appointment.status # "cancelled"}

\* in_denominator, first part: no upcoming appointment starts before the end of
\* the risk period
no_follow_up_appointment ==
    IF upcoming_appointments # {}
    THEN ~ \E appointment \in upcoming_appointments :
               is_before_risk_period(appointment.startTime)
    ELSE TRUE

\* Mutation of no_recent_contact: calls to the patient are not looked at.
no_recent_contact_messages_only ==
    LET most_recent_appointment_time == get_most_recent_appointment
        messages_after_recent ==
            IF most_recent_appointment_time # None
            THEN get_messages_to_patient_after(The(most_recent_appointment_time)) # {}
            ELSE FALSE
    IN  ~ messages_after_recent

\* in_denominator, second part: no staff message and no call to the patient after
\* the most recent check-in.  A record set is true when it holds a record.
no_recent_contact ==
    LET most_recent_appointment_time == get_most_recent_appointment
        messages_after_recent ==
            IF most_recent_appointment_time # None
            THEN get_messages_to_patient_after(The(most_recent_appointment_time)) # {}
            ELSE FALSE
        phone_calls_after_recent ==
            IF most_recent_appointment_time # None /\ Len(get_phone_calls_to_patient) > 0
            THEN Len(after(get_phone_calls_to_patient,
                           The(most_recent_appointment_time))) > 0
            ELSE FALSE
    IN  ~ (messages_after_recent \/ phone_calls_after_recent)

in_denominator == no_follow_up_appointment /\ no_recent_contact

in_numerator ==
    Len(after(get_phone_calls_to_patient, NOW - WEEK)) > 0

\* Mutation of compute_results: the due branch leaves due_in unset.
compute_results_without_due_in ==
    LET result == ProtocolResult
    IN  IF in_denominator
        THEN IF in_numerator
             THEN add_narrative([result EXCEPT !.status = STATUS_SATISFIED],
                                "Patient has been contacted in the past week.")
             ELSE add_narrative([result EXCEPT !.status = STATUS_DUE],
                                "Patient has no follow-up appointment.")
        ELSE add_narrative([result EXCEPT !.status = STATUS_NOT_APPLICABLE],
                           "Patient has an appointment or has been contacted.")

compute_results ==
    LET result == ProtocolResult
    IN  IF in_denominator
        THEN IF in_numerator
             THEN add_narrative([result EXCEPT !.status = STATUS_SATISFIED],
                                "Patient has been contacted in the past week.")
             ELSE add_narrative(
                      [result EXCEPT !.due_in = Some(-1), !.status = STATUS_DUE],
                      "Patient has no follow-up appointment within their risk stratification period and has not been contacted over the past period.")
        ELSE add_narrative(
                 [result EXCEPT !.status = STATUS_NOT_APPLICABLE],
                 "Patient has an appointment within their risk period or has been contacted.")

-----------------------------------------------------------------------------
(* FollowupOverdue: the host's changes to the patient record *)

UpcomingStartTimes ==
    {NOW + 10 * DAY, NOW + NEXT_MONTH_WINDOW, NOW + TWO_MONTH_WINDOW,
     NOW + SIX_MONTHS_WINDOW}
UpcomingStatuses == {"booked", "cancelled"}

AppointmentStates == {"BKD", "CVD"}
StateChangeTimes == {NOW - 200 * DAY, NOW - 3 * DAY}

InterviewStatuses == {"AC", "EE"}
ContactTimes ==
    {NOW - 200 * DAY, NOW - 200 * DAY + 1, NOW - WEEK - 1, NOW - WEEK, NOW - DAY}
PhoneCallResponses ==
    {<<[code |-> "QUES_PHONE_03", value |-> "Reached"],
       [code |-> "QUES_PHONE_10", value |-> "Call to patient"]>>,
     <<[code |-> "QUES_PHONE_03", value |-> "Reached"],
       [code |-> "QUES_PHONE_11", value |-> "Call to other"]>>}

RiskTimes == {LONG_TIME_AGO, NOW - 30 * DAY}
RiskLevels == {"Low", "Medium", "High Risk", "High Risk - Unstable", "Very High"}
RiskResponses ==
    {<<>>,
     <<[code |-> "DUO_QUES_RISK_STRAT_03", value |-> "High Risk"]>>,
     <<[code |-> "DUO_QUES_RISK_STRAT_03", value |-> "High Risk"],
       [code |-> RISK_STRATIFICATION_QUESTION_ID, value |-> "High Risk - Unstable"]>>}
    \cup {<<[code |-> RISK_STRATIFICATION_QUESTION_ID, value |-> level]>> :
             level \in RiskLevels}

MessageSenders == {<<[type |-> "Staff"]>>, <<[type |-> "Patient"]>>}

RECURSIVE StateChanges(_)
StateChanges(appts) ==
    IF appts = {} THEN 0
    ELSE LET a == CHOOSE x \in appts : TRUE
         IN  Len(a.stateHistory) + StateChanges(appts \ {a})

RecordCount ==
    Cardinality(upcoming_appointments) + StateChanges(appointments)
        + Len(interviews) + Cardinality(messages)

\* An appointment is scheduled for a future start time (or such a one is cancelled).
ScheduleUpcomingAppointment ==
    /\ RecordCount < MaxRecords
    /\ \E startTime \in UpcomingStartTimes, status \in UpcomingStatuses :
           /\ [startTime |-> startTime, status |-> status] \notin upcoming_appointments
           /\ upcoming_appointments' =
                  upcoming_appointments \cup {[startTime |-> startTime, status |-> status]}
    /\ fo_result' = None
    /\ UNCHANGED <<appointments, interviews, messages, st_vars, ht_vars>>

\* A past appointment enters the record with its first state.
AddAppointment ==
    /\ RecordCount < MaxRecords
    /\ \E state \in AppointmentStates, created \in StateChangeTimes :
           LET appointment ==
                   [stateHistory |-> <<[state |-> state, created |-> created]>>]
           IN  /\ appointment \notin appointments
               /\ appointments' = appointments \cup {appointment}
    /\ fo_result' = None
    /\ UNCHANGED <<upcoming_appointments, interviews, messages, st_vars, ht_vars>>

\* An appointment of the record changes state (a check-in is state "CVD").
ChangeAppointmentState ==
    /\ RecordCount < MaxRecords
    /\ \E appointment \in appointments, state \in AppointmentStates,
          created \in StateChangeTimes :
           appointments' =
               (appointments \ {appointment}) \cup
                   {[stateHistory |->
                        Append(appointment.stateHistory,
                               [state |-> state, created |-> created])]}
    /\ fo_result' = None
    /\ UNCHANGED <<upcoming_appointments, interviews, messages, st_vars, ht_vars>>

\* The host lists interviews in the order of their timestamps.
Chronological(noteTimestamp) ==
    IF Len(interviews) = 0 THEN TRUE
    ELSE interviews[Len(interviews)].noteTimestamp <= noteTimestamp

RecordPhoneCall ==
    /\ RecordCount < MaxRecords
    /\ \E status \in InterviewStatuses, noteTimestamp \in ContactTimes,
          responses \in PhoneCallResponses :
           /\ Chronological(noteTimestamp)
           /\ interviews' =
                  Append(interviews,
                         [questionnaire |-> PHONE_CALL_DISPOSITION_QUESTIONNAIRE_ID,
                          status |-> status, noteTimestamp |-> noteTimestamp,
                          responses |-> responses])
    /\ fo_result' = None
    /\ UNCHANGED <<upcoming_appointments, appointments, messages, st_vars, ht_vars>>

\* The protocol never reads the status of a risk-stratification interview.
RecordRiskStratification ==
    /\ RecordCount < MaxRecords
    /\ \E noteTimestamp \in RiskTimes, responses \in RiskResponses :
           /\ Chronological(noteTimestamp)
           /\ interviews' =
                  Append(interviews,
                         [questionnaire |-> RISK_STRATIFICATION_QUESTIONNAIRE_ID,
                          status |-> "AC", noteTimestamp |-> noteTimestamp,
                          responses |-> responses])
    /\ fo_result' = None
    /\ UNCHANGED <<upcoming_appointments, appointments, messages, st_vars, ht_vars>>

SendMessage ==
    /\ RecordCount < MaxRecords
    /\ \E sender \in MessageSenders, created \in ContactTimes :
           /\ [sender |-> sender, created |-> created] \notin messages
           /\ messages' = messages \cup {[sender |-> sender, created |-> created]}
    /\ fo_result' = None
    /\ UNCHANGED <<upcoming_appointments, appointments, interviews, st_vars, ht_vars>>

\* The host calls FollowupOverdue.compute_results on the changed record.
FollowupComputeResults ==
    /\ fo_result = None
    /\ fo_result' = Some(compute_results)
    /\ UNCHANGED <<upcoming_appointments, appointments, interviews, messages, st_vars, ht_vars>>

-----------------------------------------------------------------------------
(* SpecialTasks *)

ENGAGEMENT_TRANSITION_TASK_LABELS == <<"Engagement">>

get_tasks_by_label(labels) ==
    LET open_tasks == {task \in tasks : task.status = "OPEN"}
    IN  {task \in open_tasks :
            \E i \in 1..Len(task.labels) :
                \E j \in 1..Len(labels) : task.labels[i] = labels[j]}

st_in_denominator ==
    get_tasks_by_label(ENGAGEMENT_TRANSITION_TASK_LABELS) # {}

\* Mutation of st_in_numerator: a task due exactly at NOW counts as future.
st_in_numerator_due_now ==
    LET engagement_transition_tasks ==
            get_tasks_by_label(ENGAGEMENT_TRANSITION_TASK_LABELS)
    IN  \E task \in engagement_transition_tasks : task.due >= NOW

st_in_numerator ==
    LET engagement_transition_tasks ==
            get_tasks_by_label(ENGAGEMENT_TRANSITION_TASK_LABELS)
    IN  \E task \in engagement_transition_tasks : task.due > NOW

st_compute_results ==
    LET result == ProtocolResult
    IN  IF st_in_denominator
        THEN IF st_in_numerator
             THEN add_narrative([result EXCEPT !.status = STATUS_SATISFIED],
                                "Special tasks are in the future.")
             ELSE add_narrative(
                      [result EXCEPT !.due_in = Some(-1), !.status = STATUS_DUE],
                      "Patient has past due special tasks to be addressed.")
        ELSE add_narrative([result EXCEPT !.status = STATUS_NOT_APPLICABLE],
                           "Patient does not have any special tasks.")

TaskStatuses == {"OPEN", "CLOSED"}
TaskLabels == {<<>>, <<"Engagement">>, <<"Urgent">>, <<"Urgent", "Engagement">>}
TaskDueTimes == {NOW - DAY, NOW, NOW + DAY}

AddTask ==
    /\ Cardinality(tasks) < MaxTasks
    /\ \E status \in TaskStatuses, labels \in TaskLabels, due \in TaskDueTimes :
           /\ [status |-> status, labels |-> labels, due |-> due] \notin tasks
           /\ tasks' = tasks \cup {[status |-> status, labels |-> labels, due |-> due]}
    /\ st_result' = None
    /\ UNCHANGED <<fo_vars, ht_vars>>

CloseTask ==
    /\ \E task \in tasks :
           /\ task.status = "OPEN"
           /\ tasks' = (tasks \ {task}) \cup {[task EXCEPT !.status = "CLOSED"]}
    /\ st_result' = None
    /\ UNCHANGED <<fo_vars, ht_vars>>

\* The host calls SpecialTasks.compute_results on the changed record.
TasksComputeResults ==
    /\ st_result = None
    /\ st_result' = Some(st_compute_results)
    /\ UNCHANGED <<tasks, fo_vars, ht_vars>>

-----------------------------------------------------------------------------
(* HormoneTherapyProtocol *)

Coding(system, code) == [system |-> system, code |-> code]

PostmenopausalState == {Coding("ICD10CM", "N95.0"), Coding("ICD10CM", "N95.1")}
Hysterectomy == {Coding("ICD10CM", "Z90.710"), Coding("SNOMEDCT", "236886002")}
EstrogenTherapy == {Coding("LOINC", "2254-1")}
ProgestinTherapy == {Coding("LOINC", "2839-9")}
EstrogenAndProgestinTherapy == {Coding("LOINC", "2839-9"), Coding("LOINC", "2254-1")}

\* recordset.find(ValueSet) on coded records: the records coded with a code of the set.
find_coded(records, value_set) == {record \in records : record \in value_set}

ht_in_denominator ==
    Cardinality(find_coded(conditions, PostmenopausalState)) > 0

\* Mutation of ht_in_numerator: after a hysterectomy, progestin is not looked at.
ht_in_numerator_ignoring_progestin ==
    LET progestin_therapy == Cardinality(find_coded(medications, ProgestinTherapy)) > 0
        estrogen_therapy == Cardinality(find_coded(medications, EstrogenTherapy)) > 0
    IN  IF Cardinality(find_coded(conditions, Hysterectomy)) > 0
        THEN estrogen_therapy
        ELSE estrogen_therapy /\ progestin_therapy

ht_in_numerator ==
    LET progestin_therapy == Cardinality(find_coded(medications, ProgestinTherapy)) > 0
        estrogen_therapy == Cardinality(find_coded(medications, EstrogenTherapy)) > 0
    IN  IF Cardinality(find_coded(conditions, Hysterectomy)) > 0
        THEN estrogen_therapy /\ ~ progestin_therapy
        ELSE estrogen_therapy /\ progestin_therapy

PrescribeRecommendation(key, prescription, title) ==
    [type |-> "PrescribeRecommendation", key |-> key, rank |-> 1,
     button |-> "Prescribe", prescription |-> prescription, title |-> title]

ht_compute_results ==
    LET result == ProtocolResult
    IN  IF ht_in_denominator
        THEN IF Cardinality(find_coded(conditions, Hysterectomy)) > 0
             THEN IF ~ ht_in_numerator
                  THEN add_recommendation(
                           [result EXCEPT !.status = STATUS_DUE],
                           PrescribeRecommendation(
                               "RECOMMEND_ESTROGEN_THERAPY", EstrogenTherapy,
                               "Recommendation of Estrogen Therapy."))
                  ELSE result
             ELSE IF ~ ht_in_numerator
                  THEN add_recommendation(
                           [result EXCEPT !.status = STATUS_DUE],
                           PrescribeRecommendation(
                               "RECOMMEND_ESTROGEN_AND_PROGESTIN_THERAPY",
                               EstrogenAndProgestinTherapy,
                               "Recommendation of Estrogen and Progestin Therapy."))
                  ELSE result
        ELSE result

ConditionCodings ==
    PostmenopausalState \cup Hysterectomy \cup {Coding("ICD10CM", "E11.9")}
MedicationCodings ==
    EstrogenTherapy \cup ProgestinTherapy \cup {Coding("LOINC", "2160-0")}

DiagnoseCondition ==
    /\ \E condition \in ConditionCodings \ conditions :
           conditions' = conditions \cup {condition}
    /\ ht_result' = None
    /\ UNCHANGED <<medications, fo_vars, st_vars>>

PrescribeMedication ==
    /\ \E medication \in MedicationCodings \ medications :
           medications' = medications \cup {medication}
    /\ ht_result' = None
    /\ UNCHANGED <<conditions, fo_vars, st_vars>>

StopMedication ==
    /\ \E medication \in medications :
           medications' = medications \ {medication}
    /\ ht_result' = None
    /\ UNCHANGED <<conditions, fo_vars, st_vars>>

\* The host calls HormoneTherapyProtocol.compute_results on the changed record.
HormoneComputeResults ==
    /\ ht_result = None
    /\ ht_result' = Some(ht_compute_results)
    /\ UNCHANGED <<conditions, medications, fo_vars, st_vars>>

-----------------------------------------------------------------------------
(* Specifications *)

Init ==
    /\ upcoming_appointments = {}
    /\ appointments = {}
    /\ interviews = <<>>
    /\ messages = {}
    /\ fo_result = None
    /\ tasks = {}
    /\ st_result = None
    /\ conditions = {}
    /\ medications = {}
    /\ ht_result = None

Next ==
    \/ ScheduleUpcomingAppointment
    \/ AddAppointment
    \/ ChangeAppointmentState
    \/ RecordPhoneCall
    \/ RecordRiskStratification
    \/ SendMessage
    \/ FollowupComputeResults

\* FollowupOverdue over a patient record the host changes
Spec == Init /\ [][Next]_vars

NextTasks ==
    \/ AddTask
    \/ CloseTask
    \/ TasksComputeResults

\* SpecialTasks over a task list the host changes
SpecTasks == Init /\ [][NextTasks]_vars

NextHormone ==
    \/ DiagnoseCondition
    \/ PrescribeMedication
    \/ StopMedication
    \/ HormoneComputeResults

\* HormoneTherapyProtocol over the conditions and medications the host changes
SpecHormone == Init /\ [][NextHormone]_vars

-----------------------------------------------------------------------------
(* Properties of FollowupOverdue *)

\* The completed phone calls directed to the patient, read off the record.
CallsToPatient ==
    {i \in 1..Len(interviews) :
        /\ interviews[i].questionnaire = PHONE_CALL_DISPOSITION_QUESTIONNAIRE_ID
        /\ interviews[i].status = "AC"
        /\ \E k \in 1..Len(interviews[i].responses) :
               interviews[i].responses[k].code = "QUES_PHONE_10"}

\* The timestamps of all check-in ("CVD") state changes of all appointments.
CheckIns ==
    {entry.created :
        entry \in {e \in UNION {{a.stateHistory[i] : i \in 1..Len(a.stateHistory)} :
                                   a \in appointments} : e.state = "CVD"}}

StaffMessages ==
    {m \in messages : \E i \in 1..Len(m.sender) : m.sender[i].type = "Staff"}

\* C1: compute_results gives every snapshot exactly one of the three statuses:
\* not_applicable when in_denominator is false (whatever in_numerator is),
\* satisfied when both are true, due when in_denominator is true and in_numerator
\* false; due_in is -1 exactly in the due case, and exactly one narrative is
\* attached in every case.
C1_StatusMapping ==
    fo_result # None =>
        LET result == The(fo_result)
        IN  /\ result.status \in {STATUS_NOT_APPLICABLE, STATUS_SATISFIED, STATUS_DUE}
            /\ ~ in_denominator => result.status = STATUS_NOT_APPLICABLE
            /\ in_denominator /\ in_numerator => result.status = STATUS_SATISFIED
            /\ in_denominator /\ ~ in_numerator => result.status = STATUS_DUE
            /\ result.status = STATUS_DUE => result.due_in = Some(-1)
            /\ result.status # STATUS_DUE => result.due_in = None
            /\ Len(result.narratives) = 1

\* C1 witness: the scenario patient (no upcoming appointment, last check-in 200
\* days ago, no contact since, default risk) has been evaluated and is due.
C1_Witness ==
    /\ fo_result # None
    /\ upcoming_appointments = {}
    /\ CheckIns = {NOW - 200 * DAY}
    /\ interviews = <<>>
    /\ messages = {}
    /\ The(fo_result).status = STATUS_DUE
    /\ The(fo_result).due_in = Some(-1)

\* C2 (as claimed): the scenario patient (no upcoming appointment, most recent
\* check-in 200 days ago, no staff message, risk level Low) who has a completed
\* patient-directed call dated yesterday gets status satisfied.
C2_CallYesterdaySatisfied ==
    ( /\ fo_result # None
      /\ upcoming_appointments = {}
      /\ CheckIns # {}
      /\ Max(CheckIns) = NOW - 200 * DAY
      /\ StaffMessages = {}
      /\ get_risk_stratification(LONG_TIME_AGO) = "Low"
      /\ \E i \in CallsToPatient : interviews[i].noteTimestamp = NOW - DAY )
    => The(fo_result).status = STATUS_SATISFIED

\* C3: "no upcoming follow-up within the risk window" is true iff the patient has
\* no upcoming appointment or every upcoming appointment starts not before
\* NOW + the resolved risk window; so a patient with any upcoming appointment
\* starting strictly before NOW + window is out of the denominator and gets
\* not_applicable, whatever the contact history.
C3_NoFollowUpWithinWindow ==
    LET window == get_risk_stratification_period
    IN  /\ no_follow_up_appointment <=>
               \/ upcoming_appointments = {}
               \/ \A appointment \in upcoming_appointments :
                      appointment.startTime >= NOW + window
        /\ (\E appointment \in upcoming_appointments :
                appointment.startTime < NOW + window)
           => /\ ~ in_denominator
              /\ fo_result # None => The(fo_result).status = STATUS_NOT_APPLICABLE

\* C3 witness: one upcoming appointment at NOW + 10 days, risk level Low (window
\* 198 days), evaluated as not_applicable.
C3_Witness ==
    /\ fo_result # None
    /\ \E appointment \in upcoming_appointments :
           upcoming_appointments = {appointment}
               /\ appointment.startTime = NOW + 10 * DAY
    /\ get_risk_stratification(LONG_TIME_AGO) = "Low"
    /\ get_risk_stratification_period = 198 * DAY
    /\ The(fo_result).status = STATUS_NOT_APPLICABLE

\* C4 (as claimed): with a check-in on record and T the latest check-in timestamp,
\* "no recent contact" is false iff a staff message was created strictly after T
\* or a completed call to the patient was made after T; contact at or before T
\* does not count.
C4_ContactOnlyAfterCheckIn ==
    CheckIns # {} =>
        LET T == Max(CheckIns)
        IN  ~ no_recent_contact <=>
                \/ \E m \in StaffMessages : m.created > T
                \/ \E i \in CallsToPatient : interviews[i].noteTimestamp > T

\* C5: a patient with no upcoming appointment and no checked-in appointment is
\* always in the denominator, whatever staff messages and calls to the patient the
\* record holds.
C5_NoAppointmentsInDenominator ==
    (upcoming_appointments = {} /\ CheckIns = {}) =>
        /\ no_recent_contact
        /\ in_denominator
        /\ fo_result # None => The(fo_result).status # STATUS_NOT_APPLICABLE

\* C5 witness: no upcoming appointment, no check-in, a staff message and a
\* completed call to the patient on record, evaluated.
C5_Witness ==
    /\ fo_result # None
    /\ upcoming_appointments = {}
    /\ CheckIns = {}
    /\ StaffMessages # {}
    /\ CallsToPatient # {}
    /\ The(fo_result).status = STATUS_SATISFIED

\* C6: in_numerator is true iff a completed phone-call interview with a
\* CALL_TO_PATIENT response has a timestamp >= NOW - 7 days (the instant exactly 7
\* days before NOW included); calls to others, calls not completed and calls older
\* than 7 days never make it true.
C6_NumeratorCallInLastWeek ==
    in_numerator <=>
        \E i \in CallsToPatient : interviews[i].noteTimestamp >= NOW - 7 * DAY

\* C6 witness: the only completed call to the patient is dated exactly 7 days
\* before NOW, older and other calls aside, and the patient is evaluated satisfied.
C6_Witness ==
    /\ fo_result # None
    /\ CallsToPatient # {}
    /\ \A i \in CallsToPatient : interviews[i].noteTimestamp = NOW - 7 * DAY
    /\ Len(interviews) > Cardinality(CallsToPatient)
    /\ in_numerator
    /\ The(fo_result).status = STATUS_SATISFIED

\* The risk-stratification interviews of the record, by position.
RiskInterviews ==
    {i \in 1..Len(interviews) :
        interviews[i].questionnaire = RISK_STRATIFICATION_QUESTIONNAIRE_ID}

\* The risk level as C7 states it, for a reference time.
C7_Level(reference) ==
    IF RiskInterviews = {} THEN "Low"
    ELSE LET recent == interviews[Max(RiskInterviews)]
             coded == {k \in 1..Len(recent.responses) :
                          recent.responses[k].code = "DUO_QUES_RISK_STRAT_02"}
         IN  IF recent.noteTimestamp > reference /\ coded # {}
             THEN recent.responses[CHOOSE k \in coded : \A l \in coded : k <= l].value
             ELSE "Low"

\* C7: the risk-window resolver always yields 33, 66 or 198 days.  The level is the
\* value of the response coded with the risk-stratification question id in the
\* most recent risk-stratification interview, if that interview is strictly newer
\* than the reference time; it is Low without such an interview, when it is not
\* newer, or when no response carries the code.  The window is 198 days for Low
\* and Medium, 66 for High Risk, 33 for High Risk - Unstable, and 198 days for
\* every other level.
C7_RiskWindowResolver ==
    LET level == get_risk_stratification(LONG_TIME_AGO)
        window == get_risk_stratification_period
    IN  /\ \A i \in RiskInterviews :
               interviews[i].noteTimestamp <= interviews[Max(RiskInterviews)].noteTimestamp
        /\ \A reference \in {LONG_TIME_AGO, NOW - 30 * DAY, NOW} :
               get_risk_stratification(reference) = C7_Level(reference)
        /\ window \in {33 * DAY, 66 * DAY, 198 * DAY}
        /\ level \in {"Low", "Medium"} => window = 198 * DAY
        /\ level = "High Risk" => window = 66 * DAY
        /\ level = "High Risk - Unstable" => window = 33 * DAY
        /\ level \notin {"Low", "Medium", "High Risk", "High Risk - Unstable"}
               => window = 198 * DAY

\* C7 witness: the most recent risk-stratification interview, newer than the
\* reference time, carries a level outside the table; the patient has an upcoming
\* appointment at NOW + 66 days and is evaluated with the 198-day window.
C7_Witness ==
    /\ fo_result # None
    /\ RiskInterviews # {}
    /\ get_risk_stratification(LONG_TIME_AGO) = "Very High"
    /\ get_risk_stratification_period = 198 * DAY
    /\ \E appointment \in upcoming_appointments :
           appointment.startTime = NOW + 66 * DAY
    /\ The(fo_result).status = STATUS_NOT_APPLICABLE

\* C10 (as claimed): only non-cancelled upcoming appointments count as a follow-up:
\* a patient whose upcoming appointments inside the risk window are all cancelled,
\* and who has no contact after the last check-in, is in the denominator, and the
\* status is not not_applicable.
C10_CancelledUpcomingIgnored ==
    ( /\ \A appointment \in upcoming_appointments :
             appointment.startTime < NOW + get_risk_stratification_period
                 => appointment.status = "cancelled"
      /\ no_recent_contact )
    => /\ in_denominator
       /\ fo_result # None => The(fo_result).status # STATUS_NOT_APPLICABLE

\* C11: whenever compute_results returns satisfied, either the patient has no
\* check-in at all, or the most recent check-in T is not older than 7 days and
\* every completed call to the patient of the last 7 days is at or before T.  So
\* for a patient whose most recent check-in is older than 7 days, in_numerator
\* true implies in_denominator false, and the status is never satisfied.
C11_SatisfiedOnlyWithoutOlderCheckIn ==
    /\ (fo_result # None /\ The(fo_result).status = STATUS_SATISFIED) =>
           \/ CheckIns = {}
           \/ /\ Max(CheckIns) >= NOW - 7 * DAY
              /\ \A i \in CallsToPatient :
                     interviews[i].noteTimestamp >= NOW - 7 * DAY
                         => interviews[i].noteTimestamp <= Max(CheckIns)
    /\ (CheckIns # {} /\ Max(CheckIns) < NOW - 7 * DAY) =>
           /\ in_numerator => ~ in_denominator
           /\ fo_result # None => The(fo_result).status # STATUS_SATISFIED

\* C11 witness: a patient checked in 3 days ago, with a completed call to the
\* patient in the last 7 days, is evaluated satisfied.
C11_Witness ==
    /\ fo_result # None
    /\ CheckIns # {}
    /\ Max(CheckIns) = NOW - 3 * DAY
    /\ \E i \in CallsToPatient : interviews[i].noteTimestamp >= NOW - 7 * DAY
    /\ The(fo_result).status = STATUS_SATISFIED

-----------------------------------------------------------------------------
(* Properties of SpecialTasks *)

\* The open tasks that carry the label Engagement, read off the record.
EngagementTasks ==
    {task \in tasks :
        /\ task.status = "OPEN"
        /\ \E i \in 1..Len(task.labels) : task.labels[i] = "Engagement"}

\* C8: SpecialTasks.compute_results returns not_applicable iff no task is both OPEN
\* and labelled Engagement; otherwise satisfied iff such a task is due strictly
\* after NOW; otherwise (every such task due at or before NOW) due with due_in -1.
\* Closed tasks and tasks with other labels never influence the result.
C8_SpecialTasksMapping ==
    st_result # None =>
        LET result == The(st_result)
        IN  /\ result.status \in {STATUS_NOT_APPLICABLE, STATUS_SATISFIED, STATUS_DUE}
            /\ result.status = STATUS_NOT_APPLICABLE <=> EngagementTasks = {}
            /\ result.status = STATUS_SATISFIED <=>
                   \E task \in EngagementTasks : task.due > NOW
            /\ result.status = STATUS_DUE <=>
                   /\ EngagementTasks # {}
                   /\ \A task \in EngagementTasks : task.due <= NOW
            /\ result.status = STATUS_DUE <=> result.due_in = Some(-1)

\* C8 witness: an open Engagement task due exactly at NOW beside a task that is
\* closed or labelled otherwise and due in the future; the result is due.
C8_Witness ==
    /\ st_result # None
    /\ \E task \in EngagementTasks : task.due = NOW
    /\ \E task \in tasks \ EngagementTasks : task.due > NOW
    /\ The(st_result).status = STATUS_DUE
    /\ The(st_result).due_in = Some(-1)

-----------------------------------------------------------------------------
(* Properties of HormoneTherapyProtocol *)

Postmenopausal == \E condition \in conditions : condition.code \in {"N95.0", "N95.1"}
HadHysterectomy == \E condition \in conditions : condition.code \in {"Z90.710", "236886002"}
OnEstrogen == \E medication \in medications : medication.code = "2254-1"
OnProgestin == \E medication \in medications : medication.code = "2839-9"
ExpectedRegimenPresent ==
    IF HadHysterectomy THEN OnEstrogen /\ ~ OnProgestin ELSE OnEstrogen /\ OnProgestin

\* C9: for a patient with a postmenopausal-state diagnosis, compute_results sets
\* status due and adds exactly one prescribe recommendation iff the expected
\* regimen is absent: estrogen without progestin after a hysterectomy
\* (recommendation: estrogen therapy), estrogen with progestin otherwise
\* (recommendation: estrogen and progestin therapy).  In every other case no
\* recommendation is added and no status is assigned (never satisfied).
C9_HormoneTherapyRecommendation ==
    ht_result # None =>
        LET result == The(ht_result)
        IN  IF Postmenopausal /\ ~ ExpectedRegimenPresent
            THEN /\ result.status = STATUS_DUE
                 /\ Len(result.recommendations) = 1
                 /\ result.recommendations[1].type = "PrescribeRecommendation"
                 /\ result.recommendations[1].key =
                        IF HadHysterectomy THEN "RECOMMEND_ESTROGEN_THERAPY"
                        ELSE "RECOMMEND_ESTROGEN_AND_PROGESTIN_THERAPY"
                 /\ result.recommendations[1].prescription =
                        IF HadHysterectomy THEN EstrogenTherapy
                        ELSE EstrogenAndProgestinTherapy
            ELSE /\ result.recommendations = <<>>
                 /\ result.status = ProtocolResult.status
                 /\ result.status # STATUS_SATISFIED
                 /\ result.status # STATUS_DUE

\* C9 witness: a postmenopausal patient with a hysterectomy record who takes
\* estrogen and progestin is evaluated: due, with the estrogen recommendation.
C9_Witness ==
    /\ ht_result # None
    /\ Postmenopausal /\ HadHysterectomy /\ OnEstrogen /\ OnProgestin
    /\ The(ht_result).status = STATUS_DUE
    /\ Len(The(ht_result).recommendations) = 1

====
